---- MODULE Spec2Model ----
(***************************************************************************)
(* Model of src/parse.py: extract_item1a (document loader, candidate       *)
(* collector, boundary locator, span extractor, text normalizer) and the   *)
(* batch driver under __main__.                                            *)
(*                                                                         *)
(* A raw document is a record                                              *)
(*   html      - whether the <html>...</html> region is found (line 26)    *)
(*   tags      - the heading-bearing tags of the parsed tree in document   *)
(*               order; each has a tag type and the kind of heading its    *)
(*               cleaned text matches (start pattern, end pattern, other)  *)
(*   uniform   - whether tags of the same type and kind are written with   *)
(*               identical markup (their str() is the same string)         *)
(*   narrative - what the external converter trafilatura.extract returns   *)
(*               for the span taken from this document (a text or None)    *)
(* The tags of a document are siblings: nesting of one heading tag in      *)
(* another is not modelled.  A tag is named by its position in tags, and   *)
(* 0 stands for None.  A text is a sequence of one-character strings.      *)
(* i is the enumerate index of the next candidate of the loop of line 59,  *)
(* visited records the candidates examined so far, and calls records, per  *)
(* document, whether extract_item1a returned (and what) or raised.         *)
(***************************************************************************)
EXTENDS Integers, Sequences, FiniteSets, TLC

VARIABLES fs, files, k, item1a, status, log, calls,
          pc, i, index_start, index_end, tag_start, tag_end, visited,
          item1a_html, item1a_text, ret, exc

driver == <<fs, files, k, item1a, status>>
locals == <<i, index_start, index_end, tag_start, tag_end, visited,
            item1a_html, item1a_text, ret, exc>>
vars == <<fs, files, k, item1a, status, log, calls,
          pc, i, index_start, index_end, tag_start, tag_end, visited,
          item1a_html, item1a_text, ret, exc>>

----------------------------------------------------------------------------
(* Bounds of the model *)
MaxTags == 3
MaxTextLen == 6
MaxFiles == 3

(* Program constants *)
MinSectionLen == 32
NoIndex == -1
NoTag == 0

----------------------------------------------------------------------------
(* Characters and texts *)

LowerChars == {"a", "b", "c"}
UpperChars == {"A", "B", "C"}
DigitChars == {"0", "1", "2", "3", "4", "5", "6", "7", "8", "9"}
SpaceChars == {" ", "\n", "\t"}

IsAlpha(c) == c \in LowerChars \cup UpperChars
IsLower(c) == c \in LowerChars
IsNumeric(c) == c \in DigitChars
IsAlnum(c) == IsAlpha(c) \/ IsNumeric(c)

NoneText == <<"None">>

RECURSIVE LStrip(_)
LStrip(s) ==
    IF s # <<>> /\ Head(s) \in SpaceChars THEN LStrip(Tail(s)) ELSE s

RECURSIVE RStrip(_)
RStrip(s) ==
    IF s # <<>> /\ s[Len(s)] \in SpaceChars
    THEN RStrip(SubSeq(s, 1, Len(s) - 1))
    ELSE s

Strip(s) == RStrip(LStrip(s))

(* re.sub(r'\n[0-9]{1,2}\n', ' ', s): leftmost, non-overlapping matches *)
RECURSIVE RemovePageNumbers(_)
RemovePageNumbers(s) ==
    IF s = <<>> THEN <<>>
    ELSE IF /\ Len(s) >= 3
            /\ s[1] = "\n" /\ s[2] \in DigitChars /\ s[3] = "\n"
         THEN <<" ">> \o RemovePageNumbers(SubSeq(s, 4, Len(s)))
    ELSE IF /\ Len(s) >= 4
            /\ s[1] = "\n" /\ s[2] \in DigitChars /\ s[3] \in DigitChars
            /\ s[4] = "\n"
         THEN <<" ">> \o RemovePageNumbers(SubSeq(s, 5, Len(s)))
    ELSE <<Head(s)>> \o RemovePageNumbers(Tail(s))

(* s.split('\n'): a sequence of lines, never empty *)
RECURSIVE Split(_)
Split(s) ==
    IF s = <<>> THEN << <<>> >>
    ELSE IF Head(s) = "\n" THEN << <<>> >> \o Split(Tail(s))
    ELSE LET rest == Split(Tail(s))
         IN  << <<Head(s)>> \o Head(rest) >> \o Tail(rest)

(* '\n'.join(r) *)
RECURSIVE Join(_)
Join(r) ==
    IF r = <<>> THEN <<>>
    ELSE IF Len(r) = 1 THEN r[1]
    ELSE r[1] \o <<"\n">> \o Join(Tail(r))

(* a variant that merges only the lines starting with a lowercase letter *)
IsContinuation_lowerOnly(p) == IsAlpha(p[1]) /\ IsLower(p[1])

(* the condition of lines 103-105 on a non-empty line *)
IsContinuation(p) ==
    \/ (IsAlpha(p[1]) /\ IsLower(p[1]))
    \/ IsNumeric(p[1])
    \/ ~IsAlnum(p[1])

(* the loop of lines 101-108 from accumulator r over the non-empty lines ls *)
RECURSIVE Rejoin(_, _)
Rejoin(r, ls) ==
    IF ls = <<>> THEN r
    ELSE LET p == Head(ls)
         IN  IF IsContinuation(p)
             THEN Rejoin([r EXCEPT ![Len(r)] = Strip(r[Len(r)] \o <<" ">> \o p)],
                         Tail(ls))
             ELSE Rejoin(Append(r, p), Tail(ls))

PageLines(s) == Split(RemovePageNumbers(s))

(* _post_process: the returned text, or the exception it raises *)
PostProcess(s) ==
    IF s = NoneText THEN [exc |-> "TypeError", val |-> <<>>]
    ELSE IF \E j \in 1..Len(PageLines(s)) : PageLines(s)[j] = <<>>
         THEN [exc |-> "IndexError", val |-> <<>>]
    ELSE [exc |-> "", val |-> Strip(Join(Rejoin(<< <<>> >>, PageLines(s))))]

TooShort(t) == Len(t) < MinSectionLen

FailedMarker(f) == <<"<FAILED>", f, "</FAILED>">>

----------------------------------------------------------------------------
(* Tags, candidates, serialization *)

TagTypes == <<"font", "b", "p", "div", "table">>
Kinds == {"start", "end", "other"}

(* a variant whose start pattern also accepts text that is no heading *)
MatchesStart_loose(tag) == tag.kind # "end"

(* lines 69 and 74: the cleaned text of the tag matches the pattern *)
MatchesStart(tag) == tag.kind = "start"
MatchesEnd(tag) == tag.kind = "end"

(* soup.find_all(ty): the positions of the tags of type ty, in document order *)
FindAll(tags, ty) ==
    LET F[n \in 0..Len(tags)] ==
            IF n = 0 THEN <<>>
            ELSE IF tags[n].type = ty THEN Append(F[n - 1], n) ELSE F[n - 1]
    IN  F[Len(tags)]

Candidates(tags) ==
    FindAll(tags, "font") \o FindAll(tags, "b") \o FindAll(tags, "p")
        \o FindAll(tags, "div") \o FindAll(tags, "table")

Reverse(s) == [j \in 1..Len(s) |-> s[Len(s) + 1 - j]]

(* the list enumerated by the loop of line 59 *)
Scanned(tags) == Reverse(Candidates(tags))

(* str(tag) of the tag at position p of document d *)
Ser(d, p) ==
    <<d.tags[p].type, d.tags[p].kind, IF d.uniform THEN 0 ELSE p>>

(* line 87-88: the leftmost occurrence of str(tag_start) that is followed by *)
(* an occurrence of str(tag_end), and the first such occurrence after it;    *)
(* <<>> when the search returns None                                         *)
SearchSpan(d, ts, te) ==
    LET n == Len(d.tags)
        ok == {p \in 1..n : /\ Ser(d, p) = Ser(d, ts)
                            /\ \E q \in (p + 1)..n : Ser(d, q) = Ser(d, te)}
    IN  IF ok = {} THEN <<>>
        ELSE LET p == CHOOSE x \in ok : \A y \in ok : x <= y
                 qs == {q \in (p + 1)..n : Ser(d, q) = Ser(d, te)}
             IN  <<p, CHOOSE x \in qs : \A y \in qs : x <= y>>

(* a variant with the comparison the other way round *)
OrderSuspicious_flipped(is, ie) == ie <= is

(* line 81 *)
OrderSuspicious(is, ie) == is <= ie

(* a variant that stops at the first match of either kind *)
BothFound_either(ts, te) == ts # NoTag \/ te # NoTag

(* line 78; a bs4 tag is always true, so the test is "is not None" *)
BothFound(ts, te) == ts # NoTag /\ te # NoTag

----------------------------------------------------------------------------
(* Inputs *)

PathNames == <<"f1", "f2", "f3", "f4">>
Paths(n) == SubSeq(PathNames, 1, n)

Tag(ty, kd) == [type |-> ty, kind |-> kd]
TagSet == {Tag(TagTypes[t], kd) : t \in 1..Len(TagTypes), kd \in Kinds}
TagSeqs(n) == UNION {[1..m -> TagSet] : m \in 0..n}

TextChars == {"a", "A", "1", "2", " ", "\n"}
Texts(n) == UNION {[1..m -> TextChars] : m \in 0..n}

(* 32 characters: one paragraph that is not too short *)
LongText == [j \in 1..MinSectionLen |-> IF j = 1 THEN "A" ELSE "a"]
ShortText == <<"A", "a">>

RawDoc(h, t, u, n) == [html |-> h, tags |-> t, uniform |-> u, narrative |-> n]

GoodTags == <<Tag("p", "start"), Tag("p", "start"), Tag("p", "end")>>
MalformedDoc == RawDoc(FALSE, <<>>, FALSE, NoneText)

ScanDocs ==
    {RawDoc(TRUE, t, u, LongText) : t \in TagSeqs(MaxTags), u \in BOOLEAN}
        \cup {MalformedDoc}

BatchDocs ==
    { RawDoc(TRUE, GoodTags, FALSE, LongText),
      RawDoc(TRUE, GoodTags, FALSE, ShortText),
      RawDoc(TRUE, GoodTags, FALSE, NoneText),
      RawDoc(TRUE, GoodTags, TRUE, LongText),
      RawDoc(TRUE, <<Tag("p", "end")>>, FALSE, LongText),
      RawDoc(TRUE, <<Tag("b", "start"), Tag("font", "other")>>, FALSE, LongText),
      MalformedDoc }

----------------------------------------------------------------------------
(* State *)

InitLocals ==
    /\ i = 0
    /\ index_start = NoIndex
    /\ index_end = NoIndex
    /\ tag_start = NoTag
    /\ tag_end = NoTag
    /\ visited = <<>>
    /\ item1a_html = <<>>
    /\ item1a_text = <<>>
    /\ ret = <<>>
    /\ exc = ""

InitDriver ==
    /\ k = 0
    /\ item1a = <<>>
    /\ status = <<>>
    /\ log = {}
    /\ calls = <<>>

(* one document, any tag sequence *)
InitScan ==
    /\ fs = Paths(1)
    /\ files \in [{"f1"} -> ScanDocs]
    /\ InitDriver
    /\ InitLocals
    /\ pc = "loop"

(* a batch of documents *)
InitBatch ==
    /\ \E n \in 0..MaxFiles :
          /\ fs = Paths(n)
          /\ files \in [{PathNames[j] : j \in 1..n} -> BatchDocs]
    /\ InitDriver
    /\ InitLocals
    /\ pc = "loop"

(* one document at line 91, the converter having returned any text or None *)
InitText ==
    /\ fs = Paths(1)
    /\ \E t \in Texts(MaxTextLen) \cup {NoneText, LongText} :
          /\ files = [p \in {"f1"} |-> RawDoc(TRUE, GoodTags, FALSE, t)]
          /\ item1a_text = t
    /\ InitDriver
    /\ i = 2
    /\ index_start = 1
    /\ index_end = 0
    /\ tag_start = 2
    /\ tag_end = 3
    /\ visited = <<3, 2>>
    /\ item1a_html = <<2, 3>>
    /\ ret = <<>>
    /\ exc = ""
    /\ pc = "post"

f == fs[k + 1]
Doc == files[f]

----------------------------------------------------------------------------
(* extract_item1a *)

ResetLocals ==
    /\ i' = 0
    /\ index_start' = NoIndex
    /\ index_end' = NoIndex
    /\ tag_start' = NoTag
    /\ tag_end' = NoTag
    /\ visited' = <<>>
    /\ item1a_html' = <<>>
    /\ item1a_text' = <<>>
    /\ ret' = <<>>
    /\ exc' = ""

Raise(e) ==
    /\ pc' = "raised"
    /\ exc' = e
    /\ calls' = Append(calls, [raised |-> TRUE, value |-> <<>>])

(* lines 24-32 and the construction of the candidate list, lines 55-63 *)
Load ==
    /\ pc = "load"
    /\ IF ~Doc.html
       THEN /\ log' = log \cup {<<"Corrupted format", f>>}
            /\ Raise("Exception")
       ELSE /\ pc' = IF Scanned(Doc.tags) = <<>> THEN "check" ELSE "scan"
            /\ UNCHANGED <<log, exc, calls>>
    /\ UNCHANGED <<driver, i, index_start, index_end, tag_start, tag_end,
                   visited, item1a_html, item1a_text, ret>>

(* one iteration of the loop of lines 59-79 *)
ScanStep ==
    /\ pc = "scan"
    /\ i < Len(Scanned(Doc.tags))
    /\ LET pos == Scanned(Doc.tags)[i + 1]
           tag == Doc.tags[pos]
           ts == IF MatchesStart(tag) THEN pos ELSE tag_start
           te == IF MatchesEnd(tag) THEN pos ELSE tag_end
       IN  /\ index_start' = IF MatchesStart(tag) THEN i ELSE index_start
           /\ tag_start' = ts
           /\ index_end' = IF MatchesEnd(tag) THEN i ELSE index_end
           /\ tag_end' = te
           /\ visited' = Append(visited, pos)
           /\ i' = i + 1
           /\ pc' = IF BothFound(ts, te) \/ i + 1 = Len(Scanned(Doc.tags))
                    THEN "check" ELSE "scan"
    /\ UNCHANGED <<driver, log, calls, item1a_html, item1a_text, ret, exc>>

(* lines 81-84 *)
Check ==
    /\ pc = "check"
    /\ log' = IF OrderSuspicious(index_start, index_end)
              THEN log \cup {<<"Potential un-matched start-end pair", f>>}
              ELSE log
    /\ IF tag_start = NoTag \/ tag_end = NoTag
       THEN Raise("AssertionError")
       ELSE /\ pc' = "span"
            /\ UNCHANGED <<exc, calls>>
    /\ UNCHANGED <<driver, i, index_start, index_end, tag_start, tag_end,
                   visited, item1a_html, item1a_text, ret>>

(* lines 87-88 *)
Span ==
    /\ pc = "span"
    /\ LET m == SearchSpan(Doc, tag_start, tag_end)
       IN  IF m = <<>>
           THEN /\ Raise("AttributeError")
                /\ UNCHANGED item1a_html
           ELSE /\ item1a_html' = m
                /\ pc' = "convert"
                /\ UNCHANGED <<exc, calls>>
    /\ UNCHANGED <<driver, log, i, index_start, index_end, tag_start, tag_end,
                   visited, item1a_text, ret>>

(* line 89: trafilatura.extract, an external library *)
Convert ==
    /\ pc = "convert"
    /\ item1a_text' = Doc.narrative
    /\ pc' = "post"
    /\ UNCHANGED <<driver, log, calls, i, index_start, index_end, tag_start,
                   tag_end, visited, item1a_html, ret, exc>>

(* lines 111-114 *)
Normalize ==
    /\ pc = "post"
    /\ LET r == PostProcess(item1a_text)
       IN  IF r.exc # ""
           THEN /\ Raise(r.exc)
                /\ UNCHANGED <<ret, log>>
           ELSE /\ ret' = r.val
                /\ log' = IF TooShort(r.val)
                          THEN log \cup {<<"Section too short", f>>}
                          ELSE log
                /\ pc' = "return"
                /\ calls' = Append(calls, [raised |-> FALSE, value |-> r.val])
                /\ UNCHANGED exc
    /\ UNCHANGED <<driver, i, index_start, index_end, tag_start, tag_end,
                   visited, item1a_html, item1a_text>>

----------------------------------------------------------------------------
(* the batch driver, lines 129-142 *)

(* line 134: the next document, or the end of the loop *)
Loop ==
    /\ pc = "loop"
    /\ pc' = IF k < Len(fs) THEN "load" ELSE "done"
    /\ UNCHANGED <<driver, log, calls, locals>>

(* lines 136-137 *)
Return ==
    /\ pc = "return"
    /\ item1a' = Append(item1a, ret)
    /\ status' = Append(status, 0)
    /\ k' = k + 1
    /\ pc' = "loop"
    /\ ResetLocals
    /\ UNCHANGED <<fs, files, log, calls>>

(* a variant of the handler that records the status but no marker *)
Except_drop ==
    /\ pc = "raised"
    /\ log' = log \cup {<<"Unknown error", f>>}
    /\ status' = Append(status, 1)
    /\ k' = k + 1
    /\ pc' = "loop"
    /\ ResetLocals
    /\ UNCHANGED <<fs, files, item1a, calls>>

(* lines 138-141 *)
Except ==
    /\ pc = "raised"
    /\ log' = log \cup {<<"Unknown error", f>>}
    /\ item1a' = Append(item1a, FailedMarker(f))
    /\ status' = Append(status, 1)
    /\ k' = k + 1
    /\ pc' = "loop"
    /\ ResetLocals
    /\ UNCHANGED <<fs, files, calls>>

Next ==
    \/ Loop
    \/ Load
    \/ ScanStep
    \/ Check
    \/ Span
    \/ Convert
    \/ Normalize
    \/ Return
    \/ Except

SpecScan == InitScan /\ [][Next]_vars
SpecBatch == InitBatch /\ [][Next]_vars

NextText ==
    \/ Normalize
    \/ Return
    \/ Except
    \/ Loop

SpecText == InitText /\ [][NextText]_vars

----------------------------------------------------------------------------
(* Properties of the boundary locator and the span extractor (SpecScan) *)

Processing == pc \notin {"loop", "done"}
AfterScan == pc \in {"check", "span", "convert", "post", "return"}
                \/ (pc = "raised" /\ exc # "Exception")
AfterCheck == pc \in {"span", "convert", "post", "return"}
                 \/ (pc = "raised" /\ exc # "Exception")

Warned(msg) == <<msg, f>> \in log

KindAt(d, p) == d.tags[p].kind
StartsOf(d) == {p \in 1..Len(d.tags) : KindAt(d, p) = "start"}
EndsOf(d) == {p \in 1..Len(d.tags) : KindAt(d, p) = "end"}

TypeRank(ty) ==
    CASE ty = "font" -> 1 [] ty = "b" -> 2 [] ty = "p" -> 3
      [] ty = "div" -> 4 [] ty = "table" -> 5

(* p is examined before q by a scan in reverse type-priority order *)
ScanBefore(d, p, q) ==
    \/ TypeRank(d.tags[p].type) > TypeRank(d.tags[q].type)
    \/ (d.tags[p].type = d.tags[q].type /\ p > q)

(* the indices of v (a sequence of positions of d) whose tag is of kind kd *)
Hits(d, v, kd) == {a \in DOMAIN v : KindAt(d, v[a]) = kd}
HasBoth(d, v) == Hits(d, v, "start") # {} /\ Hits(d, v, "end") # {}
Latest(S) == CHOOSE a \in S : \A b \in S : b <= a

(* C1: whenever a start match p precedes another start match q in the      *)
(* document and an end match follows q, the start tag selected by the scan *)
(* is not the earlier one p, whatever the tag types.                        *)
C1_SelectsLaterStart ==
    (Processing /\ AfterScan) =>
        \A p, q \in StartsOf(Doc) : \A e \in EndsOf(Doc) :
            (p < q /\ q < e) => tag_start # p

NoBoundary(d) == d.html /\ (StartsOf(d) = {} \/ EndsOf(d) = {})

(* C2: a document with no start match, or with no end match, makes          *)
(* extract_item1a raise the assertion error of lines 83-84 and never return *)
(* a text; its record has status 1 and the failure marker with its path.    *)
C2_MissingBoundaryFails ==
    /\ Len(item1a) = k /\ Len(status) = k /\ k <= Len(fs)
    /\ \A j \in 1..k :
          NoBoundary(files[fs[j]]) =>
              /\ status[j] = 1
              /\ item1a[j] = <<"<FAILED>", fs[j], "</FAILED>">>
              /\ calls[j].raised
    /\ (Processing /\ NoBoundary(Doc)) =>
          /\ pc \notin {"span", "convert", "post", "return"}
          /\ pc = "raised" => exc = "AssertionError"

C2_Witness ==
    /\ k = 1
    /\ NoBoundary(files[fs[1]])
    /\ EndsOf(files[fs[1]]) # {}
    /\ status = <<1>>
    /\ item1a = << <<"<FAILED>", "f1", "</FAILED>">> >>

(* C8 as stated: the warning is logged exactly when index_end <= index_start *)
C8_WarnIffEndLeStart ==
    /\ (Processing /\ AfterCheck) =>
          (Warned("Potential un-matched start-end pair")
              <=> index_end <= index_start)
    /\ (Processing /\ ~AfterCheck) =>
          ~Warned("Potential un-matched start-end pair")

(* C8 amended: after the scan the warning is logged exactly when           *)
(* index_start <= index_end; no warning for a pair whose start index is    *)
(* strictly greater than its end index.                                     *)
C8_WarnIffStartLeEnd ==
    /\ (Processing /\ AfterCheck) =>
          (Warned("Potential un-matched start-end pair")
              <=> index_start <= index_end)
    /\ (Processing /\ ~AfterCheck) =>
          ~Warned("Potential un-matched start-end pair")

C8_Witness ==
    /\ pc = "span"
    /\ Warned("Potential un-matched start-end pair")
    /\ index_start >= 0
    /\ index_start < index_end

(* C9: the span captured by the re-search is the one lying between the      *)
(* selected start tag and the selected end tag, also when a serialization   *)
(* occurs more than once; the search fails only when the serializations     *)
(* cannot be located in that order.                                         *)
C9_SpanIsPositional ==
    /\ (Processing /\ pc \in {"convert", "post", "return"}) =>
          item1a_html = <<tag_start, tag_end>>
    /\ (Processing /\ pc = "raised" /\ exc = "AttributeError") =>
          ~ \E p, q \in 1..Len(Doc.tags) :
                p < q /\ Ser(Doc, p) = Ser(Doc, tag_start)
                      /\ Ser(Doc, q) = Ser(Doc, tag_end)

(* C10: the candidates are visited in the reverse of the type-priority      *)
(* concatenation; the scan stops at the first candidate at which both a     *)
(* start and an end match are recorded and examines nothing after it; each  *)
(* recorded tag is the latest match of its kind among the visited ones and  *)
(* its index is its 0-based scan position, -1 exactly when unrecorded.      *)
C10_ShortCircuitScan ==
    (Processing /\ Doc.html) =>
        LET d == Doc
            v == visited
            hs == Hits(d, v, "start")
            he == Hits(d, v, "end")
        IN  /\ \A a, b \in DOMAIN v : a < b => ScanBefore(d, v[a], v[b])
            /\ \A a \in DOMAIN v : \A q \in 1..Len(d.tags) :
                  ScanBefore(d, q, v[a]) => \E b \in 1..a : v[b] = q
            /\ \A m \in 1..(Len(v) - 1) : ~HasBoth(d, SubSeq(v, 1, m))
            /\ pc = "load" => v = <<>>
            /\ pc = "scan" => ~HasBoth(d, v) /\ Len(v) < Len(d.tags)
            /\ AfterScan => HasBoth(d, v) \/ Len(v) = Len(d.tags)
            /\ IF hs = {} THEN tag_start = 0 /\ index_start = -1
               ELSE tag_start = v[Latest(hs)] /\ index_start = Latest(hs) - 1
            /\ IF he = {} THEN tag_end = 0 /\ index_end = -1
               ELSE tag_end = v[Latest(he)] /\ index_end = Latest(he) - 1
            /\ (index_start = -1 <=> tag_start = 0)
            /\ (index_end = -1 <=> tag_end = 0)

(* the scan stopped early: a candidate was left unexamined *)
C10_Witness ==
    /\ pc = "check"
    /\ HasBoth(Doc, visited)
    /\ Len(visited) < Len(Doc.tags)

----------------------------------------------------------------------------
(* Properties of the text normalizer (SpecText) *)

Range(q) == {q[j] : j \in DOMAIN q}

(* the lines of a text; the empty text has none *)
Paragraphs(t) == IF t = <<>> THEN <<>> ELSE Split(t)

(* a segment "newline, one or two digits, newline" starts at position a *)
PageSegmentAt(t, a, n) ==
    /\ a + n + 1 <= Len(t)
    /\ t[a] = "\n"
    /\ \A j \in (a + 1)..(a + n) : t[j] \in DigitChars
    /\ t[a + n + 1] = "\n"

HasPageSegment(t) ==
    \E a \in 1..Len(t) : \E n \in 1..2 : PageSegmentAt(t, a, n)

(* what the claims call a continuation line, on a non-empty line *)
ContinuationLine(l) ==
    \/ l[1] \in LowerChars
    \/ l[1] \in DigitChars
    \/ l[1] \notin (LowerChars \cup UpperChars \cup DigitChars)

InputLines == PageLines(item1a_text)
NStarting ==
    Cardinality({j \in DOMAIN InputLines : ~ContinuationLine(InputLines[j])})

(* C3: on every text on which _post_process returns, applying it again      *)
(* returns the same text; the output holds no page-number segment and no    *)
(* line after the first that would be merged into its predecessor.          *)
C3_Idempotent ==
    pc = "return" =>
        /\ PostProcess(ret) = [exc |-> "", val |-> ret]
        /\ ~HasPageSegment(ret)
        /\ \A j \in 2..Len(Split(ret)) :
              Split(ret)[j] # <<>> /\ ~ContinuationLine(Split(ret)[j])

(* C4: a one- or two-digit number standing alone on a line between two      *)
(* newlines of the input (its digits occurring nowhere else in the input)   *)
(* is never a line of the output.                                           *)
C4_NoStandaloneNumber ==
    pc = "return" =>
        \A a \in 1..Len(item1a_text) : \A n \in 1..2 :
            ( /\ PageSegmentAt(item1a_text, a, n)
              /\ \A j \in 1..Len(item1a_text) :
                    (\E m \in (a + 1)..(a + n) : item1a_text[j] = item1a_text[m])
                        => j \in (a + 1)..(a + n) )
            => SubSeq(item1a_text, a + 1, a + n) \notin Range(Paragraphs(ret))

LeadingText ==
    \E j \in DOMAIN InputLines :
        /\ \A m \in 1..j : ContinuationLine(InputLines[m])
        /\ \E c \in DOMAIN InputLines[j] : InputLines[j][c] \notin SpaceChars

StartingLines ==
    SelectSeq(InputLines, LAMBDA l : ~ContinuationLine(l))

IsPrefix(a, b) == Len(a) <= Len(b) /\ SubSeq(b, 1, Len(a)) = a

C6_ShortIsSuccess ==
    /\ ( /\ pc \in {"return", "raised"}
         /\ item1a_text # NoneText
         /\ Len(item1a_text) < 32 )
       => (pc = "return" /\ Warned("Section too short"))
    /\ ( /\ k = 1
         /\ files[fs[1]].narrative # NoneText
         /\ Len(files[fs[1]].narrative) < 32 )
       => (status[1] = 0 /\ <<"Section too short", fs[1]>> \in log)

----------------------------------------------------------------------------
(* Properties of the batch driver (SpecBatch) *)

(* C7: one record per processed document, in input order: status 0 with the *)
(* returned text when extract_item1a returned, status 1 with the failure    *)
(* marker of that document's path when it raised; texts and statuses have   *)
(* equal length, and at the end every document has its record.              *)
C7_FailureIsolation ==
    /\ Len(item1a) = k /\ Len(status) = k /\ k <= Len(fs)
    /\ Len(calls) = IF pc \in {"return", "raised"} THEN k + 1 ELSE k
    /\ \A j \in 1..k :
          IF calls[j].raised
          THEN status[j] = 1 /\ item1a[j] = <<"<FAILED>", fs[j], "</FAILED>">>
          ELSE status[j] = 0 /\ item1a[j] = calls[j].value
    /\ pc = "done" => k = Len(fs)

(* a failure, then a success, then a failure *)
C7_Witness ==
    /\ pc = "done"
    /\ k = 3
    /\ status = <<1, 0, 1>>
    /\ item1a[3] = <<"<FAILED>", "f3", "</FAILED>">>

====
